---- MODULE Spec2Model ----
(***************************************************************************)
(* Pipeline orchestration core of the fastify starter:                     *)
(*   BaseOrchestrator.execute / runPipelineWithTimeout / runPipeline /     *)
(*   runWithTimeout, PerformanceInterceptor.wrap, the performance trackers *)
(*   and the process-wide OrchestratorMetrics instruments; and the         *)
(*   CreateTodoOrchestrator built on it, with validateInput, createTodo    *)
(*   and notifyCreation.                                                   *)
(*                                                                         *)
(* One step of the model is one event-loop task: the start of an execute   *)
(* call, the settling of initializeContext, the settling of one stage      *)
(* operation, the firing of a stage timer or of the pipeline timer.  All   *)
(* promise continuations that such a task triggers (the loop's catch, the  *)
(* start of the next stage, buildResult, the catch of execute) run in the  *)
(* same step, as the microtask queue drains before the next task.          *)
(***************************************************************************)
EXTENDS Integers, Sequences, FiniteSets, TLC

\* ---------------------------------------------------------------- bounds
MaxStages == 2          \* longest pipeline
MaxCalls == 2           \* execute calls of the concurrent specification

Calls == 1..MaxCalls
StageIdx == 1..MaxStages

\* ------------------------------------------------------------ vocabulary
StageNames == [i \in StageIdx |-> <<"stage", i>>]
UnknownStage == <<"unknown", 0>>
StageLabels == {StageNames[i] : i \in StageIdx} \cup {UnknownStage}
OrchestratorNames == {"OrchA", "OrchB"}
Statuses == {"success", "error"}

\* PipelineStage: name, critical?: boolean, timeout?: number
CriticalDecl == {"true", "false", "absent"}
PipelineStage(i) == [name : {StageNames[i]}, critical : CriticalDecl, timeout : BOOLEAN]
Pipelines ==
    UNION {{p \in [1..n -> UNION {PipelineStage(i) : i \in StageIdx}] :
                \A i \in 1..n : p[i].name = StageNames[i]} : n \in 0..MaxStages}

\* values that can be thrown: an Error with a message, or a non-Error value
NoError == [isError |-> FALSE, message |-> <<>>]
BoomError == [isError |-> TRUE, message |-> <<"boom">>]
RejectedValue == [isError |-> FALSE, message |-> <<"rejected-value">>]
InitError == [isError |-> TRUE, message |-> <<"init failed">>]
InitRejectedValue == [isError |-> FALSE, message |-> <<"init rejected-value">>]
BuildError == [isError |-> TRUE, message |-> <<"no entity in context">>]
InitErrors == {InitError, InitRejectedValue}
BuildBehaviours == {NoError, BuildError}

\* the ways an operation can fail: it throws an Error before it touched the
\* context, or it rejects with a non-Error value after it stored its product
OpFailures == {[error |-> BoomError, wrote |-> FALSE],
               [error |-> RejectedValue, wrote |-> TRUE]}
ContextError == [isError |-> TRUE, message |-> <<"recorded by operation">>]

\* CreateTodoInput: title, description and userId, each possibly missing; a
\* string is kept as its length and whether trim() leaves nothing of it
NoString == [present |-> FALSE, len |-> 0, blank |-> TRUE]
NoInput == [title |-> NoString, description |-> NoString, userId |-> NoString]

NoResult == [resolved |-> FALSE, success |-> FALSE, hasData |-> FALSE, data |-> {},
             hasError |-> FALSE, error |-> NoError, hasMetrics |-> FALSE, metrics |-> {}]

VARIABLES
    pipeline,          \* getPipeline(): the stage list of the orchestrator subtype
    enableMetrics,     \* config.enableMetrics of each orchestrator
    phase,             \* position of each execute call
    svc,               \* config.name of the orchestrator the call was made on
    supplied,          \* whether initializeContext returned a context with a tracker
    tracker,           \* context.perfTracker of the call's context
    loop,              \* position of the call's runPipeline loop
    invoked,           \* number of calls of each stage's original operation
    op,                \* state of each stage operation's promise
    thrown,            \* value an operation rejected with
    stageTimer,        \* setTimeout of runWithTimeout, per stage
    pipeTimer,         \* setTimeout of runPipelineWithTimeout
    errors,            \* context.errors
    results,           \* context.results: names of the stages that stored a product
    perf,              \* DefaultPerformanceTracker.metrics (its keys)
    result,            \* what the promise returned by execute resolved with
    built,             \* outcome of the call's buildResult invocation, if any
    input,             \* context.input of a CreateTodoOrchestrator call
    validationErrors,  \* context.validationErrors
    todo,              \* context.todo
    prismaCreate,      \* state of the call's prisma.todo.create promise
    activeOperations,  \* OrchestratorMetrics.activeOperations, by service
    pipelineDuration,  \* OrchestratorMetrics.pipelineDuration, by service and status
    stageLatency,      \* OrchestratorMetrics.stageLatency, by service and stage
    pipelineErrors     \* OrchestratorMetrics.pipelineErrors, by service and stage

config == <<pipeline, enableMetrics>>
vars == <<pipeline, enableMetrics, phase, svc, supplied, tracker, loop, invoked, op, thrown,
          stageTimer, pipeTimer, errors, results, perf, result, built, input,
          validationErrors, todo, prismaCreate, activeOperations,
          pipelineDuration, stageLatency, pipelineErrors>>

\* the mutable state as one value, so that the continuations of one task compose
World ==
    [phase |-> phase, svc |-> svc, supplied |-> supplied, tracker |-> tracker, loop |-> loop,
     invoked |-> invoked, op |-> op, input |-> input,
     validationErrors |-> validationErrors, todo |-> todo, prismaCreate |-> prismaCreate,
     thrown |-> thrown, stageTimer |-> stageTimer, pipeTimer |-> pipeTimer,
     errors |-> errors, results |-> results, perf |-> perf, result |-> result,
     built |-> built, activeOperations |-> activeOperations,
     pipelineDuration |-> pipelineDuration, stageLatency |-> stageLatency,
     pipelineErrors |-> pipelineErrors]

Commit(w) ==
    /\ phase' = w.phase
    /\ svc' = w.svc
    /\ supplied' = w.supplied
    /\ tracker' = w.tracker
    /\ loop' = w.loop
    /\ invoked' = w.invoked
    /\ op' = w.op
    /\ input' = w.input
    /\ validationErrors' = w.validationErrors
    /\ todo' = w.todo
    /\ prismaCreate' = w.prismaCreate
    /\ thrown' = w.thrown
    /\ stageTimer' = w.stageTimer
    /\ pipeTimer' = w.pipeTimer
    /\ errors' = w.errors
    /\ results' = w.results
    /\ perf' = w.perf
    /\ result' = w.result
    /\ built' = w.built
    /\ activeOperations' = w.activeOperations
    /\ pipelineDuration' = w.pipelineDuration
    /\ stageLatency' = w.stageLatency
    /\ pipelineErrors' = w.pipelineErrors
    /\ UNCHANGED config

\* ------------------------------------------------------- error values
\* the thrown value handed on as it is
ToErrorUnwrapped(error) == error

\* error instanceof Error ? error : new Error(String(error))
ToError(error) == [isError |-> TRUE, message |-> error.message]

\* the critical-stage error without the message of its cause
CriticalStageErrorNoCause(name, error) ==
    [isError |-> TRUE, message |-> <<"Critical stage failed", name>>]

\* new Error(`Critical stage '${stage.name}' failed: ${message of error}`)
CriticalStageError(name, error) ==
    [isError |-> TRUE, message |-> <<"Critical stage failed", name>> \o error.message]

\* a timeout error that does not say which stage timed out
StageTimeoutErrorAnonymous(name) ==
    [isError |-> TRUE, message |-> <<"Stage timeout">>]

\* new Error(`Stage '${stageName}' timeout after ${timeout}ms`)
StageTimeoutError(name) ==
    [isError |-> TRUE, message |-> <<"Stage timeout", name>>]

\* new Error(`Pipeline timeout after ${timeout}ms in orchestrator: ${name}`)
PipelineTimeoutError(name) ==
    [isError |-> TRUE, message |-> <<"Pipeline timeout", name>>]

\* ------------------------------------------------------- stage policy
\* every stage failure aborts the pipeline
IsCriticalAlways(stage) == TRUE

\* no stage failure aborts the pipeline
IsCriticalNever(stage) == FALSE

\* if (stage.critical): an absent flag is undefined, hence falsy
IsCritical(stage) == stage.critical = "true"

\* if (stage.timeout)
HasTimeout(stage) == stage.timeout

\* ------------------------------------------------------- trackers
\* a wrapper that tracks a throw under the plain name
ErrorKeyAsPlain(name) == <<name, "">>

\* `${operationName}_error`
ErrorKey(name) == <<name, "_error">>

\* a wrapper that tracks a return under the error name
PlainKeyAsError(name) == <<name, "_error">>

\* operationName
PlainKey(name) == <<name, "">>

\* a tracker whose getMetrics hands out the live map: a later track shows in
\* the map a result already carries
TrackLive(w, c, key) ==
    IF w.tracker[c] = "default"
    THEN [w EXCEPT !.perf[c] = @ \cup {key},
                   !.result[c].metrics = IF w.result[c].resolved THEN @ \cup {key} ELSE @]
    ELSE w
\* one tracker held by the orchestrator instance and used by every call
TrackShared(w, c, key) ==
    IF w.tracker[c] = "default" THEN [w EXCEPT !.perf[1] = @ \cup {key}] ELSE w
\* DefaultPerformanceTracker.track / NullPerformanceTracker.track
Track(w, c, key) ==
    IF w.tracker[c] = "default" THEN [w EXCEPT !.perf[c] = @ \cup {key}] ELSE w

\* getMetrics(): a copy of the map (default), {} (null)
GetMetrics(w, c) == IF w.tracker[c] = "default" THEN w.perf[c] ELSE {}

\* ------------------------------------------------------- metrics sink
IncGauge(g, s) == [g EXCEPT ![s] = @ + 1]
DecGaugeSkipped(g, s) == g
DecGauge(g, s) == [g EXCEPT ![s] = @ - 1]
\* an instrument that labels every observation with the first orchestrator
ObserveFirstService(h, s, l) == [h EXCEPT !["OrchA"][l] = @ + 1]
\* an observation that is recorded twice
ObserveTwice(h, s, l) == [h EXCEPT ![s][l] = @ + 2]
Observe(h, s, l) == [h EXCEPT ![s][l] = @ + 1]

\* a catch block whose result still carries the data of the context
ExecuteCatchWithData(w, c, error) ==
    LET s == w.svc[c]
        w1 == IF enableMetrics[s]
              THEN [w EXCEPT !.pipelineDuration = Observe(@, s, "error"),
                             !.pipelineErrors = Observe(@, s, UnknownStage),
                             !.activeOperations = DecGauge(@, s)]
              ELSE w
    IN  [w1 EXCEPT !.phase[c] = "done",
                   !.result[c] = [resolved |-> TRUE, success |-> FALSE,
                                  hasData |-> TRUE, data |-> w.results[c],
                                  hasError |-> TRUE, error |-> ToError(error),
                                  hasMetrics |-> w.tracker[c] # "none",
                                  metrics |-> GetMetrics(w, c)]]
\* ------------------------------------------------------- execute
\* catch block of execute
ExecuteCatch(w, c, error) ==
    LET s == w.svc[c]
        w1 == IF enableMetrics[s]
              THEN [w EXCEPT !.pipelineDuration = Observe(@, s, "error"),
                             !.pipelineErrors = Observe(@, s, UnknownStage),
                             !.activeOperations = DecGauge(@, s)]
              ELSE w
    IN  [w1 EXCEPT !.phase[c] = "done",
                   !.result[c] = [resolved |-> TRUE, success |-> FALSE,
                                  hasData |-> FALSE, data |-> {},
                                  hasError |-> TRUE, error |-> ToError(error),
                                  hasMetrics |-> w.tracker[c] # "none",
                                  metrics |-> GetMetrics(w, c)]]

\* an orchestrator that builds a result once and fails the calls after it
ExecuteBuildOnce(w, c, b) ==
    LET s == w.svc[c]
        w0 == [w EXCEPT !.built[c] = IF b = NoError THEN "ok" ELSE "threw"]
        w1 == IF enableMetrics[s]
              THEN [w0 EXCEPT !.pipelineDuration = Observe(@, s, "success"),
                              !.activeOperations = DecGauge(@, s)]
              ELSE w0
    IN  IF b # NoError \/ \E d \in Calls \ {c} : w.result[d].success
        THEN ExecuteCatch(w0, c, BuildError)
        ELSE [w1 EXCEPT !.phase[c] = "done",
                        !.result[c] = [resolved |-> TRUE, success |-> TRUE,
                                       hasData |-> TRUE, data |-> w.results[c],
                                       hasError |-> FALSE, error |-> NoError,
                                       hasMetrics |-> TRUE,
                                       metrics |-> GetMetrics(w, c)]]
\* execute after runPipelineWithTimeout resolved: buildResult and the success return
ExecuteBuild(w, c, b) ==
    LET s == w.svc[c]
        w0 == [w EXCEPT !.built[c] = IF b = NoError THEN "ok" ELSE "threw"]
        w1 == IF enableMetrics[s]
              THEN [w0 EXCEPT !.pipelineDuration = Observe(@, s, "success"),
                              !.activeOperations = DecGauge(@, s)]
              ELSE w0
    IN  IF b # NoError
        THEN ExecuteCatch(w0, c, b)
        ELSE [w1 EXCEPT !.phase[c] = "done",
                        !.result[c] = [resolved |-> TRUE, success |-> TRUE,
                                       hasData |-> TRUE, data |-> w.results[c],
                                       hasError |-> FALSE, error |-> NoError,
                                       hasMetrics |-> TRUE,
                                       metrics |-> GetMetrics(w, c)]]

\* ------------------------------------------------------- runPipelineWithTimeout
\* .then of runPipeline: clearTimeout, resolve (no effect once the promise is rejected)
PipelineResolved(w, c, b) ==
    IF w.pipeTimer[c] = "armed"
    THEN ExecuteBuild([w EXCEPT !.pipeTimer[c] = "cleared"], c, b)
    ELSE w

\* a rejection that reaches execute although the promise is already settled
PipelineRejectedAgain(w, c, error) ==
    ExecuteCatch([w EXCEPT !.pipeTimer[c] = IF @ = "armed" THEN "cleared" ELSE @], c, error)

\* .catch of runPipeline: clearTimeout, reject (no effect once the promise is rejected)
PipelineRejected(w, c, error) ==
    IF w.pipeTimer[c] = "armed"
    THEN ExecuteCatch([w EXCEPT !.pipeTimer[c] = "cleared"], c, error)
    ELSE w

\* ------------------------------------------------------- runPipeline
\* loop body up to the await: wrap, runWithTimeout or plain call
StartStage(w, c, i) ==
    [w EXCEPT !.loop[c] = [state |-> "awaiting", idx |-> i],
              !.invoked[c][i] = @ + 1,
              !.op[c][i] = "running",
              !.stageTimer[c][i] = IF HasTimeout(pipeline[i]) THEN "armed" ELSE "unset"]

\* next iteration of the for loop, or return currentContext
LoopNext(w, c, i, b) ==
    IF i > Len(pipeline)
    THEN PipelineResolved([w EXCEPT !.loop[c] = [state |-> "returned", idx |-> i]], c, b)
    ELSE StartStage(w, c, i)

\* a loop that fails a critical stage whose operation left errors in the context
StageSucceededUnlessErrors(w, c, i, b) ==
    LET w1 == IF enableMetrics[w.svc[c]]
              THEN [w EXCEPT !.stageLatency = Observe(@, w.svc[c], pipeline[i].name)]
              ELSE w
    IN  IF IsCritical(pipeline[i]) /\ Len(w.errors[c]) > 0
        THEN PipelineRejected([w1 EXCEPT !.loop[c] = [state |-> "threw", idx |-> i]], c,
                              CriticalStageError(pipeline[i].name, ContextError))
        ELSE LoopNext(w1, c, i + 1, b)
\* the await of stage i returned: stage success metrics, next stage
StageSucceeded(w, c, i, b) ==
    LET w1 == IF enableMetrics[w.svc[c]]
              THEN [w EXCEPT !.stageLatency = Observe(@, w.svc[c], pipeline[i].name)]
              ELSE w
    IN  LoopNext(w1, c, i + 1, b)

\* a catch block that undoes what the failed stage stored in the context
StageFailedRollback(w, c, i, error, b) ==
    LET w1 == IF enableMetrics[w.svc[c]]
              THEN [w EXCEPT !.pipelineErrors = Observe(@, w.svc[c], pipeline[i].name)]
              ELSE w
    IN  IF IsCritical(pipeline[i])
        THEN PipelineRejected([w1 EXCEPT !.loop[c] = [state |-> "threw", idx |-> i]], c,
                              CriticalStageError(pipeline[i].name, error))
        ELSE LoopNext([w1 EXCEPT !.errors[c] = Append(@, ToError(error)),
                                 !.results[c] = @ \ {pipeline[i].name}], c, i + 1, b)

\* a catch block whose failure policy sits inside the metrics branch
StageFailedNested(w, c, i, error, b) ==
    IF enableMetrics[w.svc[c]] /\ IsCritical(pipeline[i])
    THEN PipelineRejected([w EXCEPT !.pipelineErrors = Observe(@, w.svc[c], pipeline[i].name),
                                    !.loop[c] = [state |-> "threw", idx |-> i]], c,
                          CriticalStageError(pipeline[i].name, error))
    ELSE LoopNext([w EXCEPT !.errors[c] = Append(@, ToError(error))], c, i + 1, b)
\* a catch block that also records the stage latency
StageFailedWithLatency(w, c, i, error, b) ==
    LET w1 == IF enableMetrics[w.svc[c]]
              THEN [w EXCEPT !.pipelineErrors = Observe(@, w.svc[c], pipeline[i].name),
                             !.stageLatency = Observe(@, w.svc[c], pipeline[i].name)]
              ELSE w
    IN  IF IsCritical(pipeline[i])
        THEN PipelineRejected([w1 EXCEPT !.loop[c] = [state |-> "threw", idx |-> i]], c,
                              CriticalStageError(pipeline[i].name, error))
        ELSE LoopNext([w1 EXCEPT !.errors[c] = Append(@, ToError(error))], c, i + 1, b)
\* catch block of the loop body
StageFailed(w, c, i, error, b) ==
    LET w1 == IF enableMetrics[w.svc[c]]
              THEN [w EXCEPT !.pipelineErrors = Observe(@, w.svc[c], pipeline[i].name)]
              ELSE w
    IN  IF IsCritical(pipeline[i])
        THEN PipelineRejected([w1 EXCEPT !.loop[c] = [state |-> "threw", idx |-> i]], c,
                              CriticalStageError(pipeline[i].name, error))
        ELSE LoopNext([w1 EXCEPT !.errors[c] = Append(@, ToError(error))], c, i + 1, b)

\* the loop is waiting for stage i and runWithTimeout has not rejected yet
Awaited(w, c, i) ==
    /\ w.loop[c] = [state |-> "awaiting", idx |-> i]
    /\ w.stageTimer[c][i] # "fired"

\* runWithTimeout .then/.catch: clearTimeout
ClearStageTimer(w, c, i) ==
    IF w.stageTimer[c][i] = "armed" THEN [w EXCEPT !.stageTimer[c][i] = "cleared"] ELSE w

\* ------------------------------------------------------- initial state
\* no execute call has been made, the instruments are at zero
InitCalls ==
    /\ phase = [c \in Calls |-> "idle"]
    /\ svc = [c \in Calls |-> "OrchA"]
    /\ supplied = [c \in Calls |-> FALSE]
    /\ tracker = [c \in Calls |-> "none"]
    /\ loop = [c \in Calls |-> [state |-> "none", idx |-> 0]]
    /\ invoked = [c \in Calls |-> [i \in StageIdx |-> 0]]
    /\ op = [c \in Calls |-> [i \in StageIdx |-> "notStarted"]]
    /\ thrown = [c \in Calls |-> [i \in StageIdx |-> NoError]]
    /\ stageTimer = [c \in Calls |-> [i \in StageIdx |-> "unset"]]
    /\ pipeTimer = [c \in Calls |-> "unset"]
    /\ errors = [c \in Calls |-> <<>>]
    /\ results = [c \in Calls |-> {}]
    /\ perf = [c \in Calls |-> {}]
    /\ result = [c \in Calls |-> NoResult]
    /\ built = [c \in Calls |-> "none"]
    /\ input = [c \in Calls |-> NoInput]
    /\ validationErrors = [c \in Calls |-> <<>>]
    /\ todo = [c \in Calls |-> "none"]
    /\ prismaCreate = [c \in Calls |-> "notCalled"]
    /\ activeOperations = [s \in OrchestratorNames |-> 0]
    /\ pipelineDuration = [s \in OrchestratorNames |-> [t \in Statuses |-> 0]]
    /\ stageLatency = [s \in OrchestratorNames |-> [l \in StageLabels |-> 0]]
    /\ pipelineErrors = [s \in OrchestratorNames |-> [l \in StageLabels |-> 0]]

\* orchestrators of one subtype, constructed with the same configuration
Init ==
    /\ pipeline \in Pipelines
    /\ enableMetrics \in {[s \in OrchestratorNames |-> m] : m \in BOOLEAN}
    /\ InitCalls

\* an execute that counts the call whether metrics are enabled or not
ExecuteStepCounting(w, c, s) ==
    [w EXCEPT !.phase[c] = "init",
              !.svc[c] = s,
              !.activeOperations = IncGauge(@, s)]
\* ------------------------------------------------------- steps
\* execute(input) is called on orchestrator s: startTime, activeOperations.inc,
\* initializeContext(input) is called and awaited
ExecuteStep(w, c, s) ==
    [w EXCEPT !.phase[c] = "init",
              !.svc[c] = s,
              !.activeOperations = IF enableMetrics[s] THEN IncGauge(@, s) ELSE @]

\* an execute that attaches its own tracker whatever the context carries
InitializeContextResolvesStepReplacing(w, c, own, b) ==
    LET t == IF enableMetrics[w.svc[c]] THEN "default" ELSE "null"
        w1 == [w EXCEPT !.phase[c] = "running",
                        !.supplied[c] = own,
                        !.tracker[c] = t,
                        !.pipeTimer[c] = "armed"]
    IN  LoopNext(w1, c, 1, b)
\* initializeContext resolves with a context (carrying a tracker or not):
\* attach a tracker, getPipeline, arm the pipeline timer, enter the loop
InitializeContextResolvesStep(w, c, own, b) ==
    LET t == IF own THEN "default"
             ELSE IF enableMetrics[w.svc[c]] THEN "default" ELSE "null"
        w1 == [w EXCEPT !.phase[c] = "running",
                        !.supplied[c] = own,
                        !.tracker[c] = t,
                        !.pipeTimer[c] = "armed"]
    IN  LoopNext(w1, c, 1, b)

\* PerformanceInterceptor.wrap, the original operation having returned: track
\* the duration under the plain name and return the result to whoever awaits
WrapperReturns(w, c, i, b) ==
    LET w1 == Track([w EXCEPT !.op[c][i] = "returned"], c, PlainKey(pipeline[i].name))
    IN  IF Awaited(w1, c, i)
        THEN StageSucceeded(ClearStageTimer(w1, c, i), c, i, b)
        ELSE w1

\* a wrapper that records the failure and then returns as if nothing happened
WrapperSwallows(w, c, i, error, b) ==
    LET w1 == Track([w EXCEPT !.op[c][i] = "threw", !.thrown[c][i] = error], c,
                    ErrorKey(pipeline[i].name))
    IN  IF Awaited(w1, c, i)
        THEN StageSucceeded(ClearStageTimer(w1, c, i), c, i, b)
        ELSE w1
\* PerformanceInterceptor.wrap, the original operation having thrown: track
\* the duration under the error name and throw the error again
WrapperThrows(w, c, i, error, b) ==
    LET w1 == Track([w EXCEPT !.op[c][i] = "threw", !.thrown[c][i] = error], c,
                    ErrorKey(pipeline[i].name))
    IN  IF Awaited(w1, c, i)
        THEN StageFailed(ClearStageTimer(w1, c, i), c, i, error, b)
        ELSE w1

\* stage operation i returns the context; it stored its product and possibly
\* recorded an error of its own in context.errors
OperationReturnsStep(w, c, i, pushes, b) ==
    WrapperReturns([w EXCEPT !.results[c] = @ \cup {pipeline[i].name},
                             !.errors[c] = IF pushes THEN Append(@, ContextError) ELSE @],
                   c, i, b)

\* stage operation i throws, having stored its product before or not
OperationThrowsStep(w, c, i, error, wrote, b) ==
    WrapperThrows([w EXCEPT !.results[c] = IF wrote THEN @ \cup {pipeline[i].name} ELSE @],
                  c, i, error, b)

\* the timer of runWithTimeout fires while the operation is pending
StageTimerFiresStep(w, c, i, b) ==
    StageFailed([w EXCEPT !.stageTimer[c][i] = "fired"], c, i,
                StageTimeoutError(pipeline[i].name), b)

\* a pipeline timer whose callback rejects nothing
PipelineTimerFiresStepIdle(w, c) == [w EXCEPT !.pipeTimer[c] = "fired"]
\* the timer of runPipelineWithTimeout fires while runPipeline is pending
PipelineTimerFiresStep(w, c) ==
    ExecuteCatch([w EXCEPT !.pipeTimer[c] = "fired"], c, PipelineTimeoutError(w.svc[c]))

\* ------------------------------------------------------- actions
Execute(c, s) ==
    /\ phase[c] = "idle"
    /\ \A d \in Calls : d < c => phase[d] # "idle"
    /\ Commit(ExecuteStep(World, c, s))

InitializeContextResolves(c, own, b) ==
    /\ phase[c] = "init"
    /\ Commit(InitializeContextResolvesStep(World, c, own, b))

\* initializeContext rejects: the catch block of execute
InitializeContextRejects(c, error) ==
    /\ phase[c] = "init"
    /\ Commit(ExecuteCatch(World, c, error))

OperationReturns(c, i, pushes, b) ==
    /\ i \in 1..Len(pipeline)
    /\ op[c][i] = "running"
    /\ Commit(OperationReturnsStep(World, c, i, pushes, b))

OperationThrows(c, i, error, wrote, b) ==
    /\ i \in 1..Len(pipeline)
    /\ op[c][i] = "running"
    /\ Commit(OperationThrowsStep(World, c, i, error, wrote, b))

StageTimerFires(c, i, b) ==
    /\ i \in 1..Len(pipeline)
    /\ stageTimer[c][i] = "armed"
    /\ Commit(StageTimerFiresStep(World, c, i, b))

PipelineTimerFires(c) ==
    /\ pipeTimer[c] = "armed"
    /\ Commit(PipelineTimerFiresStep(World, c))

\* one execute call on one orchestrator, every behaviour of its collaborators
Next ==
    \/ Execute(1, "OrchA")
    \/ \E c \in Calls, own \in BOOLEAN, b \in BuildBehaviours :
            InitializeContextResolves(c, own, b)
    \/ \E c \in Calls, e \in InitErrors : InitializeContextRejects(c, e)
    \/ \E c \in Calls, i \in StageIdx, pushes \in BOOLEAN, b \in BuildBehaviours :
            OperationReturns(c, i, pushes, b)
    \/ \E c \in Calls, i \in StageIdx, f \in OpFailures, b \in BuildBehaviours :
            OperationThrows(c, i, f.error, f.wrote, b)
    \/ \E c \in Calls, i \in StageIdx, b \in BuildBehaviours : StageTimerFires(c, i, b)
    \/ \E c \in Calls : PipelineTimerFires(c)

Spec == Init /\ [][Next]_vars

\* several execute calls in flight at once, on one or two orchestrators of the
\* same subtype, each with metrics on or off, whose pipeline has at most one
\* stage (every way execute can end is reachable with one stage); operations
\* throw Errors only and leave context.errors alone
ConcurrentPipelines == {p \in Pipelines : Len(p) <= 1}

InitConcurrent ==
    /\ pipeline \in ConcurrentPipelines
    /\ enableMetrics \in [OrchestratorNames -> BOOLEAN]
    /\ InitCalls

NextConcurrent ==
    \/ \E c \in Calls, s \in OrchestratorNames : Execute(c, s)
    \/ \E c \in Calls, b \in BuildBehaviours : InitializeContextResolves(c, FALSE, b)
    \/ \E c \in Calls : InitializeContextRejects(c, InitError)
    \/ \E c \in Calls, i \in StageIdx, b \in BuildBehaviours :
            OperationReturns(c, i, FALSE, b)
    \/ \E c \in Calls, i \in StageIdx, b \in BuildBehaviours :
            OperationThrows(c, i, BoomError, FALSE, b)
    \/ \E c \in Calls, i \in StageIdx, b \in BuildBehaviours : StageTimerFires(c, i, b)
    \/ \E c \in Calls : PipelineTimerFires(c)

SpecConcurrent == InitConcurrent /\ [][NextConcurrent]_vars

\* two orchestrators of the same subtype, OrchA constructed with
\* enableMetrics: true and OrchB with enableMetrics: false, each running one
\* execute call; the collaborators of the two calls behave identically: every
\* event (an outcome of initializeContext, of a stage operation, of
\* buildResult, a timer firing) happens to both calls at once
InitPair ==
    /\ pipeline \in Pipelines
    /\ enableMetrics = [s \in OrchestratorNames |-> s = "OrchA"]
    /\ InitCalls

PairExecute ==
    /\ phase[1] = "idle" /\ phase[2] = "idle"
    /\ Commit(ExecuteStep(ExecuteStep(World, 1, "OrchA"), 2, "OrchB"))

PairInitializeContextResolves(own, b) ==
    /\ phase[1] = "init" /\ phase[2] = "init"
    /\ Commit(InitializeContextResolvesStep(
                  InitializeContextResolvesStep(World, 1, own, b), 2, own, b))

PairInitializeContextRejects(error) ==
    /\ phase[1] = "init" /\ phase[2] = "init"
    /\ Commit(ExecuteCatch(ExecuteCatch(World, 1, error), 2, error))

PairOperationReturns(i, pushes, b) ==
    /\ i \in 1..Len(pipeline)
    /\ op[1][i] = "running" /\ op[2][i] = "running"
    /\ Commit(OperationReturnsStep(OperationReturnsStep(World, 1, i, pushes, b), 2, i, pushes, b))

PairOperationThrows(i, error, wrote, b) ==
    /\ i \in 1..Len(pipeline)
    /\ op[1][i] = "running" /\ op[2][i] = "running"
    /\ Commit(OperationThrowsStep(
                  OperationThrowsStep(World, 1, i, error, wrote, b), 2, i, error, wrote, b))

PairStageTimerFires(i, b) ==
    /\ i \in 1..Len(pipeline)
    /\ stageTimer[1][i] = "armed" /\ stageTimer[2][i] = "armed"
    /\ Commit(StageTimerFiresStep(StageTimerFiresStep(World, 1, i, b), 2, i, b))

PairPipelineTimerFires ==
    /\ pipeTimer[1] = "armed" /\ pipeTimer[2] = "armed"
    /\ Commit(PipelineTimerFiresStep(PipelineTimerFiresStep(World, 1), 2))

NextPair ==
    \/ PairExecute
    \/ \E own \in BOOLEAN, b \in BuildBehaviours : PairInitializeContextResolves(own, b)
    \/ \E e \in InitErrors : PairInitializeContextRejects(e)
    \/ \E i \in StageIdx, pushes \in BOOLEAN, b \in BuildBehaviours :
            PairOperationReturns(i, pushes, b)
    \/ \E i \in StageIdx, f \in OpFailures, b \in BuildBehaviours :
            PairOperationThrows(i, f.error, f.wrote, b)
    \/ \E i \in StageIdx, b \in BuildBehaviours : PairStageTimerFires(i, b)
    \/ PairPipelineTimerFires

SpecPair == InitPair /\ [][NextPair]_vars

\* a caller that changes the metrics map of the result it was given; the map
\* is the object getMetrics built with {...this.metrics}
CallerKey == <<<<"caller", 0>>, "">>

CallerChangesMetrics(c) ==
    /\ result[c].resolved
    /\ result[c].hasMetrics
    /\ CallerKey \notin result[c].metrics
    /\ Commit([World EXCEPT !.result[c].metrics = @ \cup {CallerKey}])

\* one execute call with metrics enabled whose caller may change the map it
\* got; operations throw Errors only and leave context.errors alone
InitCaller ==
    /\ pipeline \in Pipelines
    /\ enableMetrics = [s \in OrchestratorNames |-> TRUE]
    /\ InitCalls

NextCaller ==
    \/ Execute(1, "OrchA")
    \/ \E c \in Calls, b \in BuildBehaviours : InitializeContextResolves(c, FALSE, b)
    \/ \E c \in Calls : InitializeContextRejects(c, InitError)
    \/ \E c \in Calls, i \in StageIdx, b \in BuildBehaviours :
            OperationReturns(c, i, FALSE, b)
    \/ \E c \in Calls, i \in StageIdx, b \in BuildBehaviours :
            OperationThrows(c, i, BoomError, FALSE, b)
    \/ \E c \in Calls, i \in StageIdx, b \in BuildBehaviours : StageTimerFires(c, i, b)
    \/ \E c \in Calls : PipelineTimerFires(c)
    \/ \E c \in Calls : CallerChangesMetrics(c)

SpecCaller == InitCaller /\ [][NextCaller]_vars

\* ------------------------------------------------------- CreateTodoOrchestrator
TodoOrchestrator == "CreateTodoOrchestrator"

\* getPipeline(): three stages, each declared critical: true with a timeout
TodoPipeline ==
    << [name |-> <<"validate-input", 1>>, critical |-> "true", timeout |-> TRUE],
       [name |-> <<"create-todo", 2>>, critical |-> "true", timeout |-> TRUE],
       [name |-> <<"notify-creation", 3>>, critical |-> "true", timeout |-> TRUE] >>
TodoLabels == {TodoPipeline[i].name : i \in 1..Len(TodoPipeline)} \cup {UnknownStage}

\* the limits of validateInput
TitleMax == 200
DescriptionMax == 1000

\* inputs: each field missing or a string around the limits, blank or not
Strings(lens) ==
    {NoString} \cup {t \in [present : {TRUE}, len : lens, blank : BOOLEAN] :
                        t.len = 0 => t.blank}
TodoInputs ==
    [title : Strings({0, 1, TitleMax, TitleMax + 1}),
     description : Strings({0, 1, DescriptionMax, DescriptionMax + 1}),
     userId : Strings({0, 1})]

\* the checks of validateInput, in their order, with the message of each
ValidationErrors(in) ==
    (IF in.title.present /\ (in.title.len = 0 \/ in.title.blank)
     THEN <<"Title is required">> ELSE <<>>)
    \o (IF in.title.present /\ in.title.len > 0 /\ in.title.len > TitleMax
        THEN <<"Title must be less than 200 characters">> ELSE <<>>)
    \o (IF in.description.present /\ in.description.len > 0
           /\ in.description.len > DescriptionMax
        THEN <<"Description must be less than 1000 characters">> ELSE <<>>)
    \o (IF ~in.userId.present \/ in.userId.len = 0
        THEN <<"User ID is required">> ELSE <<>>)

\* new Error(`Validation failed: ${errors.join(', ')}`)
ValidationError(errs) == [isError |-> TRUE, message |-> <<"Validation failed">> \o errs]

\* new Error('Todo creation failed - no todo in context')
TodoBuildError ==
    [isError |-> TRUE, message |-> <<"Todo creation failed - no todo in context">>]

\* what prisma.todo.create rejects with
PrismaError == [isError |-> TRUE, message |-> <<"prisma create rejected">>]

\* buildResult: throws unless the context has a todo
TodoBuild(w, c) == IF w.todo[c] = "none" THEN TodoBuildError ELSE NoError

\* notifyCreation: nothing without a todo, else the notification is put into
\* context.results; it returns in the task it was called in
notifyCreation(w, c) ==
    LET w1 == IF w.todo[c] = "none"
              THEN w
              ELSE [w EXCEPT !.results[c] = @ \cup {"notificationSent"}]
    IN  WrapperReturns(w1, c, 3, TodoBuild(w1, c))

\* the loop has just called the wrapped notifyCreation
AfterCreateTodo(w, c) ==
    IF w.loop[c] = [state |-> "awaiting", idx |-> 3] /\ w.op[c][3] = "running"
    THEN notifyCreation(w, c)
    ELSE w

\* a createTodo that goes to storage whatever validation found
createTodoUnconditional(w, c) == [w EXCEPT !.prismaCreate[c] = "pending"]

\* createTodo up to its await: it returns at once after a failed validation,
\* else it calls prisma.todo.create and waits
createTodo(w, c) ==
    IF Len(w.validationErrors[c]) > 0
    THEN AfterCreateTodo(WrapperReturns(w, c, 2, TodoBuild(w, c)), c)
    ELSE [w EXCEPT !.prismaCreate[c] = "pending"]

\* validateInput: the messages go to context.validationErrors and one Error to
\* context.errors; it returns normally either way, in the task it was called in
validateInput(w, c) ==
    LET errs == ValidationErrors(w.input[c])
        w1 == IF Len(errs) > 0
              THEN [w EXCEPT !.validationErrors[c] = errs,
                             !.errors[c] = Append(@, ValidationError(errs))]
              ELSE w
        w2 == WrapperReturns(w1, c, 1, TodoBuild(w1, c))
    IN  IF w2.loop[c] = [state |-> "awaiting", idx |-> 2] /\ w2.op[c][2] = "running"
        THEN createTodo(w2, c)
        ELSE w2

\* execute(input) on a CreateTodoOrchestrator: initializeContext returns a
\* context with a DefaultPerformanceTracker without waiting for anything, so
\* the call runs on, in the same task, until createTodo waits for storage or,
\* after a failed validation, until execute returns
TodoExecute(c, in) ==
    /\ phase[c] = "idle"
    /\ LET w1 == ExecuteStep([World EXCEPT !.input[c] = in], c, TodoOrchestrator)
           w2 == InitializeContextResolvesStep(w1, c, TRUE, NoError)
       IN  Commit(validateInput(w2, c))

\* prisma.todo.create resolves with the stored todo: createTodo puts it into
\* the context and returns
PrismaCreateResolves(c) ==
    /\ prismaCreate[c] = "pending"
    /\ LET w1 == [World EXCEPT !.prismaCreate[c] = "resolved",
                               !.todo[c] = "stored",
                               !.results[c] = @ \cup {"createdTodo"}]
       IN  Commit(AfterCreateTodo(WrapperReturns(w1, c, 2, TodoBuild(w1, c)), c))

\* prisma.todo.create rejects: createTodo catches, pushes the error to
\* context.errors and returns
PrismaCreateRejects(c) ==
    /\ prismaCreate[c] = "pending"
    /\ LET w1 == [World EXCEPT !.prismaCreate[c] = "rejected",
                               !.errors[c] = Append(@, PrismaError)]
       IN  Commit(AfterCreateTodo(WrapperReturns(w1, c, 2, TodoBuild(w1, c)), c))

\* one CreateTodoOrchestrator (enableMetrics: true) and one execute call.  The
\* pipeline timer (5000 ms) cannot fire: the only stage that waits is
\* create-todo, whose own timer (2000 ms) fires first and, the stage being
\* critical, rejects the pipeline, which clears the pipeline timer.
InitTodo ==
    /\ pipeline = TodoPipeline
    /\ enableMetrics = [s \in {TodoOrchestrator} |-> TRUE]
    /\ phase = [c \in Calls |-> "idle"]
    /\ svc = [c \in Calls |-> TodoOrchestrator]
    /\ supplied = [c \in Calls |-> FALSE]
    /\ tracker = [c \in Calls |-> "none"]
    /\ loop = [c \in Calls |-> [state |-> "none", idx |-> 0]]
    /\ invoked = [c \in Calls |-> [i \in 1..Len(TodoPipeline) |-> 0]]
    /\ op = [c \in Calls |-> [i \in 1..Len(TodoPipeline) |-> "notStarted"]]
    /\ thrown = [c \in Calls |-> [i \in 1..Len(TodoPipeline) |-> NoError]]
    /\ stageTimer = [c \in Calls |-> [i \in 1..Len(TodoPipeline) |-> "unset"]]
    /\ pipeTimer = [c \in Calls |-> "unset"]
    /\ errors = [c \in Calls |-> <<>>]
    /\ results = [c \in Calls |-> {}]
    /\ perf = [c \in Calls |-> {}]
    /\ result = [c \in Calls |-> NoResult]
    /\ built = [c \in Calls |-> "none"]
    /\ input = [c \in Calls |-> NoInput]
    /\ validationErrors = [c \in Calls |-> <<>>]
    /\ todo = [c \in Calls |-> "none"]
    /\ prismaCreate = [c \in Calls |-> "notCalled"]
    /\ activeOperations = [s \in {TodoOrchestrator} |-> 0]
    /\ pipelineDuration = [s \in {TodoOrchestrator} |-> [t \in Statuses |-> 0]]
    /\ stageLatency = [s \in {TodoOrchestrator} |-> [l \in TodoLabels |-> 0]]
    /\ pipelineErrors = [s \in {TodoOrchestrator} |-> [l \in TodoLabels |-> 0]]

NextTodo ==
    \/ \E in \in TodoInputs : TodoExecute(1, in)
    \/ \E c \in Calls : PrismaCreateResolves(c)
    \/ \E c \in Calls : PrismaCreateRejects(c)
    \/ \E c \in Calls, i \in 1..Len(TodoPipeline) : StageTimerFires(c, i, TodoBuild(World, c))

SpecTodo == InitTodo /\ [][NextTodo]_vars

\* the timers phase of the event loop runs an expired timer: the pipeline
\* timer, once armed, fires unless it is cleared first.  Nothing is assumed
\* about initializeContext or the stage operations, which may never settle.
SpecLive == SpecCaller /\ WF_vars(\E c \in Calls : PipelineTimerFires(c))

\* ======================================================= properties
Stages == 1..Len(pipeline)

\* a resolved result that reports a failure with an Error
FailureResult(r) == r.resolved /\ ~r.success /\ r.hasError /\ r.error.isError /\ ~r.hasData

\* the loop saw operation i throw (the stage timer had not fired before)
ThrewInLoop(c, i) == op[c][i] = "threw" /\ stageTimer[c][i] # "fired"

\* the loop saw stage i time out
TimedOutInLoop(c, i) == stageTimer[c][i] = "fired"

\* C1: every finished execute call has resolved with a result, and on each
\* failure path (initializeContext threw, a critical stage threw or timed
\* out, the pipeline timer fired, buildResult threw) that result has
\* success=false and carries an Error, also when the thrown value was none.
C1_ExecuteAlwaysResolves ==
    \A c \in Calls :
        /\ phase[c] = "done" <=> result[c].resolved
        /\ (phase[c] = "done" /\ tracker[c] = "none") =>
                /\ FailureResult(result[c])
                /\ result[c].error.message \in {e.message : e \in InitErrors}
        /\ loop[c].state = "threw" => FailureResult(result[c])
        /\ pipeTimer[c] = "fired" => FailureResult(result[c])
        /\ built[c] = "threw" =>
                /\ FailureResult(result[c])
                /\ result[c].error.message = BuildError.message

C1_Witness ==
    \E c \in Calls :
        /\ phase[c] = "done"
        /\ tracker[c] = "none"
        /\ result[c].error.message = InitRejectedValue.message

\* C2: when a stage declared critical=true throws, no later stage is
\* invoked, buildResult is not called, and execute returns success=false;
\* unless the pipeline timer had fired before, the error names the stage
\* and ends with the message of the thrown value.
C2_CriticalThrowAborts ==
    \A c \in Calls : \A i \in Stages :
        (pipeline[i].critical = "true" /\ ThrewInLoop(c, i)) =>
            /\ \A j \in Stages : j > i => op[c][j] = "notStarted"
            /\ built[c] = "none"
            /\ FailureResult(result[c])
            /\ pipeTimer[c] # "fired" =>
                    result[c].error.message =
                        <<"Critical stage failed", pipeline[i].name>> \o thrown[c][i].message

C2_Witness ==
    \E c \in Calls : \E i \in Stages :
        /\ pipeline[i].critical = "true"
        /\ ThrewInLoop(c, i)
        /\ i < Len(pipeline)
        /\ pipeTimer[c] = "cleared"
        /\ result[c].resolved

\* C3 (as claimed): a stage declared without `critical` that throws or times
\* out aborts the pipeline: no later stage runs and execute returns
\* success=false.
C3_AbsentCriticalAborts ==
    \A c \in Calls : \A i \in Stages :
        (pipeline[i].critical = "absent" /\ (ThrewInLoop(c, i) \/ TimedOutInLoop(c, i))) =>
            /\ \A j \in Stages : j > i => op[c][j] = "notStarted"
            /\ FailureResult(result[c])

\* the error a failed stage leaves in context.errors
RecordedError(e) == [isError |-> TRUE, message |-> e.message]

\* C4: when a stage declared critical=false throws, exactly one error (the
\* thrown value as an Error) is appended to context.errors and the next
\* stage, and only the next, is started, or buildResult is called after the
\* last stage; a call whose loop returned and whose buildResult succeeded
\* returns success=true with the data built from the context.
C4_NonCriticalThrowStep ==
    \A c \in Calls : \A i \in Stages :
        (/\ pipeline[i].critical = "false"
         /\ op[c][i] = "running"
         /\ Awaited(World, c, i)
         /\ op'[c][i] = "threw") =>
            /\ errors'[c] = Append(errors[c], RecordedError(thrown'[c][i]))
            /\ i < Len(pipeline) =>
                    /\ op'[c][i + 1] = "running"
                    /\ \A j \in Stages : j > i + 1 => op'[c][j] = "notStarted"
            /\ (i = Len(pipeline) /\ pipeTimer[c] = "armed") =>
                    /\ built'[c] # "none"
                    /\ built'[c] = "ok" =>
                            /\ result'[c].success
                            /\ result'[c].data = results'[c]
                            /\ result'[c].metrics = GetMetrics(World, c)'

C4_SuccessAfterLoop ==
    \A c \in Calls :
        (loop[c].state = "returned" /\ pipeTimer[c] = "cleared" /\ built[c] = "ok") =>
            /\ result[c].resolved /\ result[c].success
            /\ result[c].hasData /\ ~result[c].hasError
            /\ result[c].data \subseteq results[c]

C4_NonCriticalThrowContinues ==
    [][C4_NonCriticalThrowStep]_vars /\ []C4_SuccessAfterLoop

\* [persist(critical), notify(non-critical)], notify throws: success, the
\* product of persist as data, one error, one metrics key per stage
C4_Witness ==
    \E c \in Calls :
        /\ Len(pipeline) = 2
        /\ pipeline[1].critical = "true" /\ pipeline[2].critical = "false"
        /\ op[c][1] = "returned" /\ ThrewInLoop(c, 2)
        /\ result[c].resolved /\ result[c].success
        /\ pipeline[1].name \in result[c].data
        /\ Len(errors[c]) = 1
        /\ result[c].metrics = {PlainKey(pipeline[1].name), ErrorKey(pipeline[2].name)}

\* C5 (as claimed): no two stage operations of one call are in progress at
\* the same time.
C5_NoTwoOperationsRunning ==
    \A c \in Calls : Cardinality({i \in Stages : op[c][i] = "running"}) <= 1

\* C5 (amended): stage operations are started in order, and an operation
\* is started only when every earlier one has settled or was abandoned by
\* the stage timeout of a stage that is not critical=true.
C5_OnlyAbandonedOverlap ==
    \A c \in Calls : \A i \in Stages : \A j \in Stages :
        (i < j /\ op[c][j] # "notStarted") =>
            /\ op[c][i] # "notStarted"
            /\ op[c][i] = "running" =>
                    (stageTimer[c][i] = "fired" /\ pipeline[i].critical # "true")

C5_Witness ==
    \E c \in Calls : \E i \in Stages : \E j \in Stages :
        i < j /\ op[c][i] = "running" /\ op[c][j] = "running"

\* C6: once the pipeline timer has fired, execute has resolved with
\* success=false and the pipeline-timeout error, whatever stage was in
\* flight, and no later event changes a resolved result.
C6_TimeoutResult ==
    \A c \in Calls :
        pipeTimer[c] = "fired" =>
            /\ FailureResult(result[c])
            /\ result[c].error.message = <<"Pipeline timeout", svc[c]>>

C6_ResultFrozen ==
    \A c \in Calls : result[c].resolved => result'[c] = result[c]

C6_PipelineTimeoutWins == []C6_TimeoutResult /\ [][C6_ResultFrozen]_vars

\* the timer fired with a stage in flight; afterwards that stage, critical,
\* failed in the loop
C6_Witness ==
    \E c \in Calls :
        /\ pipeTimer[c] = "fired"
        /\ loop[c].state = "threw"
        /\ result[c].error.message = <<"Pipeline timeout", svc[c]>>

\* C7 (as claimed): after the pipeline timer has fired, no stage that had
\* not been started is started.
C7_NoStartAfterPipelineTimeout ==
    [][\A c \in Calls : \A i \in Stages :
          (pipeTimer[c] = "fired" /\ op[c][i] = "notStarted") => op'[c][i] = "notStarted"]_vars

\* C8: a stage whose timer fired is a failed stage: declared critical=true,
\* it ends the loop, no later stage is started and (unless the pipeline
\* timer had fired) execute has resolved with success=false and the stage
\* timeout as cause; declared critical=false, the timeout error is in
\* context.errors and the next stage has been started.  Neither waits for
\* the operation.
C8_StageTimeoutFails ==
    \A c \in Calls : \A i \in Stages :
        TimedOutInLoop(c, i) =>
            /\ pipeline[i].critical = "true" =>
                    /\ loop[c] = [state |-> "threw", idx |-> i]
                    /\ \A j \in Stages : j > i => op[c][j] = "notStarted"
                    /\ FailureResult(result[c])
                    /\ pipeTimer[c] # "fired" =>
                            result[c].error.message =
                                <<"Critical stage failed", pipeline[i].name,
                                  "Stage timeout", pipeline[i].name>>
            /\ pipeline[i].critical = "false" =>
                    /\ \E k \in 1..Len(errors[c]) :
                            errors[c][k].message = <<"Stage timeout", pipeline[i].name>>
                    /\ i < Len(pipeline) => op[c][i + 1] # "notStarted"
                    /\ loop[c].idx > i

\* stage 1 (non-critical) and stage 2 (critical) both timed out, their
\* operations are still pending, and execute has resolved
C8_Witness ==
    \E c \in Calls :
        /\ Len(pipeline) = 2
        /\ pipeline[1].critical = "false" /\ pipeline[2].critical = "true"
        /\ TimedOutInLoop(c, 1) /\ TimedOutInLoop(c, 2)
        /\ op[c][1] = "running" /\ op[c][2] = "running"
        /\ pipeTimer[c] = "cleared"
        /\ result[c].resolved /\ ~result[c].success

\* calls of service s that have started and not resolved
InFlight(s) == {c \in Calls : phase[c] \in {"init", "running"} /\ svc[c] = s}

\* C9: with metrics enabled, the active-operations gauge of a service equals
\* the number of its execute calls that have started and not resolved; it
\* is never negative and is zero when no call is in flight.
C9_GaugeCountsInFlight ==
    \A s \in OrchestratorNames :
        enableMetrics[s] =>
            /\ activeOperations[s] = Cardinality(InFlight(s))
            /\ activeOperations[s] >= 0

\* one call ended by the pipeline timeout, another of the same service
\* still in flight
C9_Witness ==
    \E c \in Calls : \E d \in Calls :
            /\ enableMetrics[svc[c]]
            /\ c # d /\ svc[c] = svc[d]
            /\ phase[c] = "done" /\ pipeTimer[c] = "fired"
            /\ phase[d] = "running"
            /\ activeOperations[svc[c]] = 1

RECURSIVE SumOver(_, _)
SumOver(f, S) ==
    IF S = {} THEN 0
    ELSE LET x == CHOOSE y \in S : TRUE IN f[x] + SumOver(f, S \ {x})

\* C10 (as claimed): a call in which one critical stage failed, and nothing
\* else, has added exactly 1 to the pipeline-error counter, under the
\* stage's name, and nothing under 'unknown'.
C10_OneErrorPerCriticalFailure ==
    \A c \in Calls :
        (/\ enableMetrics[svc[c]]
         /\ loop[c].state = "threw"
         /\ pipeTimer[c] = "cleared"
         /\ \A j \in Stages : j < loop[c].idx => (op[c][j] = "returned" /\ stageTimer[c][j] # "fired")) =>
            /\ pipelineErrors[svc[c]][pipeline[loop[c].idx].name] = 1
            /\ pipelineErrors[svc[c]][UnknownStage] = 0
            /\ SumOver(pipelineErrors[svc[c]], StageLabels) = 1

\* ------------------------------------------------------- C11
\* the execute calls on orchestrator s that have resolved with success = ok
Resolved(s, ok) ==
    {c \in Calls : phase[c] = "done" /\ svc[c] = s /\ result[c].success = ok}

\* C11: with metrics enabled the pipeline-duration histogram of an orchestrator
\* holds, at every moment, exactly one observation per execute call that has
\* resolved: under status success for the calls that resolved with success =
\* true, under status error for the others, and none for a call still in flight.
C11_OneDurationPerCall ==
    \A s \in OrchestratorNames :
        enableMetrics[s] =>
            /\ pipelineDuration[s]["success"] = Cardinality(Resolved(s, TRUE))
            /\ pipelineDuration[s]["error"] = Cardinality(Resolved(s, FALSE))

\* two calls on one orchestrator have resolved, one with success and one
\* with failure
C11_Witness ==
    \E s \in OrchestratorNames :
        /\ enableMetrics[s]
        /\ Resolved(s, TRUE) # {}
        /\ Resolved(s, FALSE) # {}
        /\ pipelineDuration[s] = [t \in Statuses |-> 1]

\* ------------------------------------------------------- C12
\* the invocation of stage i by call c returned to the loop: the operation
\* returned and runWithTimeout had not rejected before
ReturnedInLoop(c, i) == op[c][i] = "returned" /\ stageTimer[c][i] # "fired"

\* C12: with metrics enabled the stage-latency histogram holds, under each
\* stage name, one observation per invocation of that stage that returned
\* before its stage timeout, and nothing for invocations that threw, timed
\* out or are still running; nothing is observed under any other label.
C12_OneLatencyPerReturn ==
    \A s \in OrchestratorNames :
        enableMetrics[s] =>
            /\ \A i \in Stages :
                   stageLatency[s][pipeline[i].name] =
                       Cardinality({c \in Calls : svc[c] = s /\ phase[c] # "idle"
                                                   /\ ReturnedInLoop(c, i)})
            /\ \A l \in StageLabels :
                   (\A i \in Stages : pipeline[i].name # l) => stageLatency[s][l] = 0

\* one call in which a stage returned (observed), another threw and a third
\* outcome, a stage timeout, left no observation
C12_Witness ==
    \E c \in Calls : \E i \in Stages : \E j \in Stages :
        /\ enableMetrics[svc[c]]
        /\ phase[c] = "done"
        /\ ReturnedInLoop(c, i)
        /\ stageLatency[svc[c]][pipeline[i].name] = 1
        /\ (ThrewInLoop(c, j) \/ TimedOutInLoop(c, j))
        /\ stageLatency[svc[c]][pipeline[j].name] = 0

\* ------------------------------------------------------- C13
\* the metrics map with one entry per stage, each under the plain stage name
AllPlain == {<<pipeline[i].name, "">> : i \in Stages}

\* success with the full map of plain names
FullSuccess(r) == r.resolved /\ r.success /\ r.hasMetrics /\ r.metrics = AllPlain

C14_MetricsUpToFailedStage ==
    \A c \in Calls : \A k \in Stages :
        (/\ tracker[c] = "default"
         /\ pipeline[k].critical = "true"
         /\ \A j \in 1..(k - 1) : ReturnedInLoop(c, j)
         /\ ThrewInLoop(c, k)
         /\ pipeTimer[c] # "fired")
        => /\ FailureResult(result[c])
           /\ result[c].hasMetrics
           /\ result[c].metrics = {<<pipeline[j].name, "">> : j \in 1..(k - 1)}
                                      \cup {<<pipeline[k].name, "_error">>}

\* the first stage returned, the second, critical, threw, a later one (if the
\* pipeline has one) never started
C14_Witness ==
    \E c \in Calls :
        /\ Len(pipeline) >= 2
        /\ tracker[c] = "default"
        /\ pipeline[2].critical = "true"
        /\ ReturnedInLoop(c, 1)
        /\ ThrewInLoop(c, 2)
        /\ pipeTimer[c] = "cleared"
        /\ result[c].metrics = {<<pipeline[1].name, "">>, <<pipeline[2].name, "_error">>}

\* ------------------------------------------------------- C15
\* C15 as stated: in the result of execute, the tracker recording, a stage
\* started before the call resolved has exactly one entry, under the plain
\* name if it returned to the loop and under the error-suffixed name if it
\* threw or timed out, and a stage that was never started has none.
C15_OneEntryPerStartedStage ==
    [][\A c \in Calls :
          (phase[c] # "done" /\ phase'[c] = "done" /\ tracker'[c] = "default")
          => \A i \in Stages :
                LET plain == <<pipeline[i].name, "">> \in result'[c].metrics
                    failed == <<pipeline[i].name, "_error">> \in result'[c].metrics
                IN  /\ op'[c][i] = "notStarted" => ~plain /\ ~failed
                    /\ op'[c][i] # "notStarted" => (plain /\ ~failed) \/ (failed /\ ~plain)
                    /\ (op'[c][i] = "returned" /\ stageTimer'[c][i] # "fired") => plain
                    /\ (op'[c][i] = "threw" /\ stageTimer'[c][i] # "fired") => failed
                    /\ stageTimer'[c][i] = "fired" => failed]_vars

\* ------------------------------------------------------- C16
\* C16: a result with success = true carries no error, and a result with
\* success = false carries an error and no data.
C16_DataXorError ==
    \A c \in Calls :
        result[c].resolved =>
            /\ result[c].success => ~result[c].hasError
            /\ ~result[c].success => result[c].hasError /\ ~result[c].hasData

\* a failure that resolved after a stage had stored its product in the context
C16_Witness ==
    \E c \in Calls :
        /\ result[c].resolved
        /\ ~result[c].success
        /\ results[c] # {}
        /\ result[c].hasError
        /\ ~result[c].hasData

\* ------------------------------------------------------- C17
\* the call c took the step: every action moves one of these for its call
Acted(c) ==
    \/ phase'[c] # phase[c]
    \/ op'[c] # op[c]
    \/ stageTimer'[c] # stageTimer[c]
    \/ pipeTimer'[c] # pipeTimer[c]

\* the time series labelled with service s
Series(s) == <<activeOperations[s], pipelineDuration[s], stageLatency[s], pipelineErrors[s]>>

\* C17: a step of an execute call changes, in the gauge, the histograms and
\* the counter, only the time series labelled with the name of the
\* orchestrator the call was made on: the series of every other service are
\* left as they were.
C17_UpdatesCarryOwnService ==
    [][\A s \in OrchestratorNames :
          (\A c \in Calls : Acted(c) => svc'[c] # s) => Series(s)' = Series(s)]_vars

\* calls on two orchestrators, both with metrics, are in flight together, one
\* has resolved and the other has not: each series holds its own call only
C17_Witness ==
    \E c \in Calls : \E d \in Calls :
        /\ svc[c] # svc[d]
        /\ enableMetrics[svc[c]] /\ enableMetrics[svc[d]]
        /\ phase[c] = "done" /\ phase[d] = "running"
        /\ pipelineDuration[svc[c]]["success"] + pipelineDuration[svc[c]]["error"] = 1
        /\ pipelineDuration[svc[d]]["success"] + pipelineDuration[svc[d]]["error"] = 0
        /\ activeOperations[svc[c]] = 0 /\ activeOperations[svc[d]] = 1

\* ------------------------------------------------------- C18
\* the keys the stage invocations of call c have recorded: one per operation
\* of that call that has returned or thrown
OwnKeys(c) ==
    {<<pipeline[i].name, "">> : i \in {j \in Stages : op[c][j] = "returned"}}
        \cup {<<pipeline[i].name, "_error">> : i \in {j \in Stages : op[c][j] = "threw"}}

\* the per-invocation state of call c
Invocation(c) == <<tracker[c], perf[c], errors[c], results[c], result[c], built[c]>>

\* C18: with calls in flight together on one orchestrator, the tracker of a
\* call holds the durations of that call's own stage invocations and nothing
\* else, and so does the metrics map of its result; a step of one call leaves
\* the context, the tracker and the result of every other call as they were;
\* no step changes the configuration.
C18_NoSharedInvocationState ==
    /\ [](\A c \in Calls :
              /\ tracker[c] = "default" => perf[c] = OwnKeys(c)
              /\ tracker[c] # "default" => perf[c] = {}
              /\ result[c].resolved => result[c].metrics \subseteq OwnKeys(c))
    /\ [][/\ \A c \in Calls : ~Acted(c) => Invocation(c)' = Invocation(c)
          /\ UNCHANGED config]_vars

\* two calls on one orchestrator have resolved with different metrics maps,
\* the stage of one having returned and the stage of the other having thrown
C18_Witness ==
    \E c \in Calls : \E d \in Calls : \E i \in Stages :
        /\ c # d /\ svc[c] = svc[d]
        /\ tracker[c] = "default" /\ tracker[d] = "default"
        /\ result[c].resolved /\ result[d].resolved
        /\ <<pipeline[i].name, "">> \in result[c].metrics
        /\ <<pipeline[i].name, "">> \notin result[d].metrics
        /\ <<pipeline[i].name, "_error">> \in result[d].metrics

\* ------------------------------------------------------- C19
\* what the collaborators of call c did: how initializeContext, the stage
\* operations, the timers and buildResult came out
Behaviour(c) ==
    <<tracker[c] = "none", op[c], thrown[c], stageTimer[c], pipeTimer[c], built[c]>>

\* C19: two calls on the same orchestrator that have resolved and whose
\* collaborators behaved identically have results with equal success, data
\* and error.
C19_SameBehaviourSameResult ==
    \A c \in Calls : \A d \in Calls :
        (/\ phase[c] = "done" /\ phase[d] = "done"
         /\ svc[c] = svc[d]
         /\ Behaviour(c) = Behaviour(d))
        => /\ result[c].success = result[d].success
           /\ result[c].hasData = result[d].hasData
           /\ result[c].data = result[d].data
           /\ result[c].hasError = result[d].hasError
           /\ result[c].error = result[d].error

\* two calls on one orchestrator have both run their stage and succeeded
C19_Witness ==
    \E c \in Calls : \E d \in Calls :
        /\ c # d /\ svc[c] = svc[d]
        /\ Stages # {}
        /\ phase[c] = "done" /\ phase[d] = "done"
        /\ Behaviour(c) = Behaviour(d)
        /\ result[c].success /\ result[d].success
        /\ result[c].data # {}

\* ------------------------------------------------------- C20
\* the error of a result of OrchB as OrchA would word it: the message of the
\* pipeline timeout is the only one that carries the orchestrator name
AsOrchA(e) == IF e = PipelineTimeoutError("OrchB") THEN PipelineTimeoutError("OrchA") ELSE e

\* C20: a call with metrics enabled and a call with metrics disabled, whose
\* collaborators behave identically, are at every moment at the same point of
\* the same stage, with the same stage operations started, settled and timed
\* out, the same context, and, once resolved, the same success, data and
\* error (the orchestrator name in a pipeline timeout message apart).
C20_MetricsAreSideChannel ==
    /\ phase[1] = phase[2]
    /\ loop[1] = loop[2]
    /\ op[1] = op[2]
    /\ stageTimer[1] = stageTimer[2]
    /\ pipeTimer[1] = pipeTimer[2]
    /\ built[1] = built[2]
    /\ errors[1] = errors[2]
    /\ results[1] = results[2]
    /\ result[1].resolved = result[2].resolved
    /\ result[1].success = result[2].success
    /\ result[1].hasData = result[2].hasData
    /\ result[1].data = result[2].data
    /\ result[1].hasError = result[2].hasError
    /\ result[1].error = AsOrchA(result[2].error)

\* both calls resolved after a stage failed and a stage returned; the sink
\* holds the observations of the call with metrics and none of the other
C20_Witness ==
    /\ enableMetrics[svc[1]] /\ ~enableMetrics[svc[2]]
    /\ phase[1] = "done" /\ phase[2] = "done"
    /\ \E i \in Stages : ReturnedInLoop(1, i) /\ ReturnedInLoop(2, i)
    /\ \E i \in Stages : ThrewInLoop(1, i) /\ ThrewInLoop(2, i)
    /\ pipelineDuration["OrchA"]["success"] + pipelineDuration["OrchA"]["error"] = 1
    /\ \E l \in StageLabels : stageLatency["OrchA"][l] = 1
    /\ \E l \in StageLabels : pipelineErrors["OrchA"][l] = 1
    /\ Series("OrchB") = <<0, [t \in Statuses |-> 0], [l \in StageLabels |-> 0],
                           [l \in StageLabels |-> 0]>>

\* ------------------------------------------------------- C23
\* stage i of call c has been invoked
Invoked(c, i) == op[c][i] # "notStarted"

\* C23: every stage operation is invoked at most once per call, a stage is
\* invoked only when all stages before it in the list have been, and stage
\* i + 1 is invoked only after stage i has returned to the loop, or has thrown
\* or timed out while being declared critical: false.
C23_InOrderAtMostOnce ==
    \A c \in Calls : \A i \in Stages :
        /\ invoked[c][i] <= 1
        /\ Invoked(c, i) => invoked[c][i] = 1 /\ \A j \in 1..(i - 1) : Invoked(c, j)
        /\ (i > 1 /\ Invoked(c, i)) =>
               \/ ReturnedInLoop(c, i - 1)
               \/ /\ ThrewInLoop(c, i - 1) \/ TimedOutInLoop(c, i - 1)
                  /\ pipeline[i - 1].critical = "false"

\* ------------------------------------------------------- C24
\* C24: the original operation of a stage is called once when the stage is
\* started; when it has returned the tracker holds the plain name and not the
\* error name, and the loop has gone on past the stage; when it has thrown the
\* tracker holds the error name and not the plain name, and the loop has been
\* handed that very error: it has thrown for a stage declared critical: true
\* and has put the error into context.errors otherwise.  While the operation
\* is pending neither key is recorded.
C24_WrapperContract ==
    \A c \in Calls : \A i \in Stages :
        LET plain == <<pipeline[i].name, "">> \in perf[c]
            failed == <<pipeline[i].name, "_error">> \in perf[c]
        IN  /\ Invoked(c, i) <=> invoked[c][i] = 1
            /\ ~(plain /\ failed)
            /\ tracker[c] = "default" =>
                   /\ plain <=> op[c][i] = "returned"
                   /\ failed <=> op[c][i] = "threw"
            /\ ReturnedInLoop(c, i) =>
                   loop[c].idx > i \/ loop[c].state \in {"returned", "threw"}
            /\ ThrewInLoop(c, i) =>
                   IF pipeline[i].critical = "true"
                   THEN loop[c] = [state |-> "threw", idx |-> i]
                   ELSE \E k \in 1..Len(errors[c]) :
                            errors[c][k] = [isError |-> TRUE, message |-> thrown[c][i].message]

\* one stage returned and another, not critical, threw a value that is not an
\* Error: both are in the tracker under their own key
C24_Witness ==
    \E c \in Calls : \E i \in Stages : \E j \in Stages :
        /\ tracker[c] = "default"
        /\ ReturnedInLoop(c, i) /\ <<pipeline[i].name, "">> \in perf[c]
        /\ ThrewInLoop(c, j) /\ <<pipeline[j].name, "_error">> \in perf[c]
        /\ pipeline[j].critical # "true"
        /\ thrown[c][j] = RejectedValue
        /\ Len(errors[c]) > 0

\* ------------------------------------------------------- C25
\* C25: the metrics map of a result is the content of the tracker at the
\* moment execute resolved; from then on a track on the tracker leaves the
\* map of the result as it is, and a change of that map by the caller leaves
\* the tracker as it is.
C25_MetricsIsSnapshot ==
    [][\A c \in Calls :
          /\ (~result[c].resolved /\ result'[c].resolved /\ tracker'[c] = "default")
                 => result'[c].metrics = perf'[c]
          /\ result[c].resolved =>
                 /\ perf'[c] # perf[c] => result'[c].metrics = result[c].metrics
                 /\ result'[c].metrics # result[c].metrics => perf'[c] = perf[c]]_vars

\* after a timeout resolved the call, the orphaned operation has settled and
\* is in the tracker but not in the result, and the caller has added a key to
\* the result that is not in the tracker
C25_Witness ==
    \E c \in Calls : \E i \in Stages :
        /\ result[c].resolved
        /\ tracker[c] = "default"
        /\ <<pipeline[i].name, "">> \in perf[c]
        /\ <<pipeline[i].name, "">> \notin result[c].metrics
        /\ CallerKey \in result[c].metrics
        /\ CallerKey \notin perf[c]

\* ------------------------------------------------------- C26
\* C26: once initializeContext has resolved, the tracker of the context is
\* the one the context came with if it came with one, whether metrics are
\* enabled or not, and it records the call's stages; otherwise it is a
\* recording tracker if metrics are enabled and a no-op tracker if not, and
\* with the no-op tracker the metrics map of the result is empty.
C26_TrackerAttachment ==
    \A c \in Calls :
        phase[c] \in {"running", "done"} /\ tracker[c] # "none" =>
            /\ supplied[c] => tracker[c] = "default" /\ perf[c] = OwnKeys(c)
            /\ ~supplied[c] =>
                   tracker[c] = IF enableMetrics[svc[c]] THEN "default" ELSE "null"
            /\ tracker[c] = "null" =>
                   /\ perf[c] = {}
                   /\ result[c].resolved => result[c].hasMetrics /\ result[c].metrics = {}

\* with metrics disabled, a call whose context came with a tracker has
\* resolved with a metrics map that is not empty
C26_Witness ==
    \E c \in Calls :
        /\ ~enableMetrics[svc[c]]
        /\ supplied[c]
        /\ result[c].resolved
        /\ result[c].metrics # {}

\* ------------------------------------------------------- C27
\* C27: when a stage not declared critical: true has thrown after storing
\* its product in the context, the product is still in the context in every
\* later state, the error is in context.errors, and a result built from that
\* context carries the product.
C27_NoRollback ==
    \A c \in Calls : \A i \in Stages :
        (/\ ThrewInLoop(c, i)
         /\ pipeline[i].critical # "true"
         /\ thrown[c][i] = RejectedValue)
        => /\ pipeline[i].name \in results[c]
           /\ \E k \in 1..Len(errors[c]) :
                  errors[c][k] = [isError |-> TRUE, message |-> RejectedValue.message]
           /\ result[c].success => pipeline[i].name \in result[c].data

\* the first stage failed that way, a later stage ran and the call succeeded
C27_Witness ==
    \E c \in Calls :
        /\ Len(pipeline) >= 2
        /\ ThrewInLoop(c, 1)
        /\ pipeline[1].critical # "true"
        /\ thrown[c][1] = RejectedValue
        /\ ReturnedInLoop(c, 2)
        /\ result[c].success
        /\ pipeline[1].name \in result[c].data

\* ------------------------------------------------------- C28
\* C28: a step in which an awaited stage operation appends an error to
\* context.errors and returns is a success of the stage, critical or not: the
\* loop goes on to the next stage or returns, the stage latency is observed
\* if metrics are enabled, the error counter of the stage is left alone, and
\* after the last stage execute succeeds exactly if buildResult returns.
C28_OnlyThrowsAffectControl ==
    [][\A c \in Calls : \A i \in Stages :
          (/\ op[c][i] = "running" /\ op'[c][i] = "returned"
           /\ stageTimer[c][i] # "fired"
           /\ errors'[c] = Append(errors[c], ContextError))
          => LET s == svc[c]
                 n == pipeline[i].name
             IN  /\ pipelineErrors'[s][n] = pipelineErrors[s][n]
                 /\ stageLatency'[s][n] =
                        stageLatency[s][n] + IF enableMetrics[s] THEN 1 ELSE 0
                 /\ i < Len(pipeline) =>
                        /\ loop'[c] = [state |-> "awaiting", idx |-> i + 1]
                        /\ op'[c][i + 1] = "running"
                 /\ i = Len(pipeline) =>
                        /\ loop'[c] = [state |-> "returned", idx |-> i + 1]
                        /\ pipeTimer[c] = "armed" =>
                               /\ result'[c].resolved
                               /\ result'[c].success <=> built'[c] = "ok"]_vars

\* a stage declared critical: true recorded an error and returned, and the
\* call succeeded with that error in its context
C28_Witness ==
    \E c \in Calls : \E i \in Stages :
        /\ pipeline[i].critical = "true"
        /\ ReturnedInLoop(c, i)
        /\ errors[c] = <<ContextError>>
        /\ result[c].success

\* ------------------------------------------------------- C30
\* C30: the time series of an orchestrator constructed with enableMetrics:
\* false stay at zero, whatever its execute calls go through.
C30_NoSinkUpdatesWhenDisabled ==
    \A s \in OrchestratorNames :
        ~enableMetrics[s] =>
            Series(s) = <<0, [t \in Statuses |-> 0], [l \in StageLabels |-> 0],
                          [l \in StageLabels |-> 0]>>

\* with metrics disabled a call has failed after a stage returned and a
\* stage threw or timed out
C30_Witness ==
    \E c \in Calls : \E i \in Stages : \E j \in Stages :
        /\ ~enableMetrics[svc[c]]
        /\ ReturnedInLoop(c, i)
        /\ ThrewInLoop(c, j) \/ TimedOutInLoop(c, j)
        /\ result[c].resolved /\ ~result[c].success

\* ------------------------------------------------------- C29
\* C29: a call whose initializeContext has resolved, so that the pipeline
\* timer is armed, eventually resolves, whatever its stage operations do.
C29_ExecuteTerminates ==
    \A c \in Calls : (phase[c] = "running") ~> (phase[c] = "done")

\* the call was resolved by the pipeline timer while a stage without a stage
\* timeout was still pending
C29_Witness ==
    \E c \in Calls : \E i \in Stages :
        /\ phase[c] = "done"
        /\ pipeTimer[c] = "fired"
        /\ op[c][i] = "running"
        /\ ~pipeline[i].timeout
        /\ result[c].error = PipelineTimeoutError(svc[c])

\* ------------------------------------------------------- C21
\* the input is one the claim lists: a title that is empty or blank, a title
\* or a description over its limit, or no userId
Rejected(in) ==
    \/ in.title.present /\ (in.title.len = 0 \/ in.title.blank)
    \/ in.title.len > 200
    \/ in.description.len > 1000
    \/ ~in.userId.present \/ in.userId.len = 0

\* C21: each input the claim lists makes validate-input record a validation
\* error, and a CreateTodoOrchestrator call that recorded one has resolved
\* with success = false and the error 'Todo creation failed - no todo in
\* context', whose message contains 'failed', without calling
\* prisma.todo.create.
C21_ValidationErrorFailsWithoutCreate ==
    \A c \in Calls :
        phase[c] # "idle" =>
            /\ Rejected(input[c]) => Len(validationErrors[c]) > 0
            /\ Len(validationErrors[c]) > 0 =>
                   /\ FailureResult(result[c])
                   /\ result[c].error.message =
                          <<"Todo creation failed - no todo in context">>
                   /\ prismaCreate[c] = "notCalled"
                   /\ todo[c] = "none"

\* a call with a blank title and a description over its limit has failed
C21_Witness ==
    \E c \in Calls :
        /\ input[c].title.present /\ input[c].title.blank /\ input[c].title.len = 1
        /\ input[c].description.len = 1001
        /\ Len(validationErrors[c]) = 2
        /\ result[c].resolved /\ ~result[c].success
        /\ prismaCreate[c] = "notCalled"

\* ------------------------------------------------------- C22
\* C22: the notify-creation stage of CreateTodoOrchestrator is a non-critical
\* stage, one whose failure the loop records in context.errors and survives.
C22_NotifyCreationNonCritical ==
    \A i \in Stages :
        pipeline[i].name = <<"notify-creation", 3>> => ~IsCritical(pipeline[i])

====
